---- MODULE Spec2Model ----
(***************************************************************************)
(* The MSCCL lifecycle layer of msccl-executor-nccl                        *)
(* (src/src/misc/msccl/msccl_lifecycle.cc): the algorithm registry and the *)
(* built-in selector, the per-thread group batching state machine, and the *)
(* process-wide init / teardown.  Collaborators (parser, loader, connect,  *)
(* mscclRunAlgo, the generic collectives, the device allocator, the        *)
(* external scheduler plugin) appear as inputs: each invocation may        *)
(* succeed or fail, and every NCCLCHECK early return is kept.              *)
(***************************************************************************)
EXTENDS Integers, Sequences, FiniteSets, TLC

VARIABLES
  \* ---- mscclStatus (process wide) ----
  algoMetas,            \* status.algoMetas: sequence of mscclAlgoMeta
  rankToAlgoHandles,    \* status.rankToAlgoHandles: sequence of maps rank -> handle
  freeAlgoHandles,      \* status.freeAlgoHandles: vector used as a stack
  hostAlgos,            \* status.hostAlgos: map handle -> [state, path] (AlgoAt)
  connectedAlgos,       \* status.connectedAlgos: comm -> set of handles
  mscclSchedulerPtr,    \* status.mscclSchedulerPtr: "null" | "plugin"
  mscclSchedulerLib,    \* status.mscclSchedulerLib: "null" | "lib"
  syncFlags,            \* status.syncFlags: "unset" | "allocated" | "freed"
  mscclInitialized,     \* static std::atomic<bool> mscclInitialized
  mscclAlgoMetaLoaded,  \* function-static bool of mscclInternalSchedulerInit
  \* ---- collaborators' state and the environment ----
  kernelsReady,         \* mscclInitKernelsForDevice has completed
  env,                  \* what dlopen / dlsym / opendir find
  comms,                \* the ncclComm objects the callers have created
  \* ---- mscclThreadLocalStatus (one per thread) ----
  groupStatus, groupDepth, savedSchedulerParams, mscclIsCallerFlag,
  pc,                   \* where each thread is inside mscclInit
  \* ---- observations (history) ----
  dispatched,           \* per thread: collaborator invocations, in order
  issued,               \* per thread: the comm of each call to mscclEnqueueCheck
  groupFirst,           \* per thread: the first call of the current outermost group
  selectCalls,          \* invocations of selectAlgo (built-in or external)
  loadCalls,            \* invocations of mscclLoadAlgo, <<entry, rank>> each
  connectCalls,         \* invocations of mscclSetupConnections, <<comm, handle, ok>>
  lastRet,              \* per thread: what the last handler returned
  lastLife,             \* the last lifecycle call: [op, comm, ret, wasInit]
  faults,               \* collaborator failures injected so far
  sel                   \* the last selector evaluation (selector specification)

vars == <<algoMetas, rankToAlgoHandles, freeAlgoHandles, hostAlgos, connectedAlgos,
          mscclSchedulerPtr, mscclSchedulerLib, syncFlags, mscclInitialized,
          mscclAlgoMetaLoaded, kernelsReady, env, comms,
          groupStatus, groupDepth, savedSchedulerParams, mscclIsCallerFlag, pc,
          dispatched, issued, groupFirst, selectCalls, loadCalls, connectCalls, lastRet,
          lastLife, faults, sel>>

statusVars == <<algoMetas, rankToAlgoHandles, freeAlgoHandles, hostAlgos, connectedAlgos,
                mscclSchedulerPtr, mscclSchedulerLib, syncFlags, mscclInitialized,
                mscclAlgoMetaLoaded, kernelsReady>>

threadVars == <<groupStatus, groupDepth, savedSchedulerParams, mscclIsCallerFlag>>

(***************************************************************************)
(* Bounds of the model.                                                    *)
(***************************************************************************)
MaxCalls == 3       \* mscclEnqueueCheck calls per thread
MaxDepth == 2       \* nesting depth of mscclGroupStart
MaxFaults == 1      \* collaborator failures per behaviour
MaxAddr == 3        \* buffer addresses 0..MaxAddr (selector specification)
MaxCount == 2       \* element counts 0..MaxCount (selector specification)

(***************************************************************************)
(* Program constants.                                                      *)
(***************************************************************************)
\* ncclRedOp_t: ncclSum = 0 .. ncclMin = 3, ncclAvg = 4, then user-created ops
ncclAvg == 4
\* scaled down: the capacity of the handle free list
MSCCL_MAX_NUM_ALGOS == 3
\* the channel count assumed for an external scheduler
MAXCHANNELS == 32

Threads == {"t1", "t2"}
CommIds == {"cA", "cB"}
NoComm == [nRanks |-> 0]

ncclSuccess == "ncclSuccess"
ncclInvalidUsage == "ncclInvalidUsage"
ncclError == "ncclError"          \* any failure a collaborator returns

\* mscclFunc_t
SingleBufferFuncs == {"Reduce", "Broadcast", "AllReduce", "AllToAll"}
GatherFuncs == {"AllGather", "Gather"}
ScatterFuncs == {"ReduceScatter", "Scatter"}
\* the kinds mscclFallBackSavedParams has a case for
FallBackFuncs == {"Reduce", "Broadcast", "AllReduce", "ReduceScatter", "AllGather",
                  "Send", "Recv", "AllToAll"}

EmptyMap == [r \in {} |-> 0]

\* std::map::operator[]: the value at k, value-initialized (0) when k is absent
MapGet(m, k) == IF k \in DOMAIN m THEN m[k] ELSE 0

\* std::map::operator[] as an lvalue: k is in the map afterwards
MapPut(m, k, v) == [x \in (DOMAIN m) \cup {k} |-> IF x = k THEN v ELSE m[x]]

Max(a, b) == IF a >= b THEN a ELSE b

(***************************************************************************)
(* mscclCommCompatible: the loop over peerInfo with the map                *)
(* hostHash -> set of pidHash.  peerInfo[i + 1] is rank i's <<host, pid>>. *)
(***************************************************************************)
RECURSIVE CompatibleLoop(_, _, _)
CompatibleLoop(peerInfo, i, hostHashToPidHashes) ==
  IF i > Len(peerInfo) THEN TRUE
  ELSE LET hostHash == peerInfo[i][1]
           pidHash == peerInfo[i][2]
       IN IF hostHash \in DOMAIN hostHashToPidHashes
             /\ pidHash \in hostHashToPidHashes[hostHash]
          THEN FALSE
          ELSE CompatibleLoop(peerInfo, i + 1,
                 MapPut(hostHashToPidHashes, hostHash,
                        (IF hostHash \in DOMAIN hostHashToPidHashes
                         THEN hostHashToPidHashes[hostHash] ELSE {}) \cup {pidHash}))

mscclCommCompatible(peerInfo) == CompatibleLoop(peerInfo, 1, EmptyMap)

(***************************************************************************)
(* mscclInternalSchedulerSelectAlgo.  p is the mscclSchedulerParam; typeSize*)
(* stands for ncclTypeSize(p.dataType).  Buffer sizes are those of real    *)
(* allocations, so none of the products wraps.                             *)
(***************************************************************************)
isInPlace_Swapped(p) ==
  IF p.func \in SingleBufferFuncs THEN p.sendBuff = p.recvBuff
  ELSE IF p.func \in GatherFuncs
       THEN p.recvBuff = p.sendBuff + p.rank * p.count * p.typeSize
  ELSE IF p.func \in ScatterFuncs
       THEN p.sendBuff = p.recvBuff + p.rank * p.count * p.typeSize
  ELSE FALSE

isInPlace(p) ==
  IF p.func \in SingleBufferFuncs THEN p.sendBuff = p.recvBuff
  ELSE IF p.func \in GatherFuncs
       THEN p.sendBuff = p.recvBuff + p.rank * p.count * p.typeSize
  ELSE IF p.func \in ScatterFuncs
       THEN p.recvBuff = p.sendBuff + p.rank * p.count * p.typeSize
  ELSE FALSE

msgSizeIsValid(p, m) ==
  LET nBytes == p.count * p.typeSize * m.sizeMultiplier
  IN /\ p.count > 0
     /\ ((p.count * m.sizeMultiplier) % m.nChunksPerLoop) = 0
     /\ nBytes >= m.minBytes
     /\ (m.maxBytes = 0 \/ nBytes <= m.maxBytes)

AlgoMatches(p, m) ==
  /\ msgSizeIsValid(p, m)
  /\ m.nRanks = p.nRanks
  /\ m.func = p.func
  /\ (IF isInPlace(p) THEN m.inPlace ELSE m.outOfPlace)

RECURSIVE SearchAlgo_Last(_, _, _, _)
SearchAlgo_Last(p, metas, r2h, i) ==
  IF i > Len(metas)
  THEN [ret |-> ncclSuccess, scheduled |-> FALSE, handle |-> p.handle, r2h |-> r2h]
  ELSE LET rest == SearchAlgo_Last(p, metas, r2h, i + 1)
       IN IF rest.scheduled THEN rest
          ELSE IF AlgoMatches(p, metas[i])
               THEN [ret |-> ncclSuccess, scheduled |-> TRUE,
                     handle |-> MapGet(r2h[i], p.rank),
                     r2h |-> [r2h EXCEPT ![i] = MapPut(@, p.rank, MapGet(@, p.rank))]]
               ELSE rest

\* the search loop, from index i on; a hit reads rankToAlgoHandles[i][rank]
\* with operator[], which inserts the rank when it is absent
RECURSIVE SearchAlgo(_, _, _, _)
SearchAlgo(p, metas, r2h, i) ==
  IF i > Len(metas)
  THEN [ret |-> ncclSuccess, scheduled |-> FALSE, handle |-> p.handle, r2h |-> r2h]
  ELSE IF AlgoMatches(p, metas[i])
       THEN [ret |-> ncclSuccess, scheduled |-> TRUE,
             handle |-> MapGet(r2h[i], p.rank),
             r2h |-> [r2h EXCEPT ![i] = MapPut(@, p.rank, MapGet(@, p.rank))]]
       ELSE SearchAlgo(p, metas, r2h, i + 1)

mscclInternalSchedulerSelectAlgo(p, metas, r2h) ==
  IF p.op >= ncclAvg
  THEN [ret |-> ncclSuccess, scheduled |-> FALSE, handle |-> p.handle, r2h |-> r2h]
  ELSE SearchAlgo(p, metas, r2h, 1)

\* mscclSchedulerSelectAlgo: the plugin when its pointer is set (its answer,
\* ext, is the plugin's own), the built-in selector otherwise
mscclSchedulerSelectAlgo(p, ptr, metas, r2h, ext) ==
  IF ptr # "null"
  THEN [ret |-> IF ext = "fail" THEN ncclError ELSE ncclSuccess,
        scheduled |-> (ext = "match"), handle |-> p.handle, r2h |-> r2h]
  ELSE mscclInternalSchedulerSelectAlgo(p, metas, r2h)

(***************************************************************************)
(* Saved calls.  mscclSetSavedSchedulerParam fills a value-initialized     *)
(* mscclSavedSchedulerParam (scheduled = false, handle = 0).               *)
(***************************************************************************)
mscclSetSavedSchedulerParam(id, call) ==
  [id |-> id, func |-> call.func, comm |-> call.comm, count |-> call.count,
   typeSize |-> call.typeSize, sendBuff |-> call.sendBuff, recvBuff |-> call.recvBuff,
   op |-> call.op, rank |-> comms[call.comm].rank, nRanks |-> comms[call.comm].nRanks,
   scheduled |-> FALSE, handle |-> 0]

Event(kind, p, ok) == [kind |-> kind, id |-> p.id, handle |-> p.handle, ok |-> ok]

(***************************************************************************)
(* mscclRunSavedParams: mscclRunAlgo for every saved call, in order; the   *)
(* first failure returns at once, before the clear().  failAt is the index *)
(* of the invocation that fails (0: none).                                 *)
(***************************************************************************)
RECURSIVE RunLoop(_, _, _, _)
RunLoop(saved, i, failAt, events) ==
  IF i > Len(saved)
  THEN [ret |-> ncclSuccess, saved |-> <<>>, events |-> events]
  ELSE IF i = failAt
       THEN [ret |-> ncclError, saved |-> saved,
             events |-> Append(events, Event("run", saved[i], FALSE))]
       ELSE RunLoop(saved, i + 1, failAt, Append(events, Event("run", saved[i], TRUE)))

mscclRunSavedParams(saved, failAt) == RunLoop(saved, 1, failAt, <<>>)

(***************************************************************************)
(* mscclFallBackSavedParams: sets the caller flag, hands every saved call  *)
(* to the generic collective of its kind, clears the flag and the list.    *)
(* A kind without a case returns ncclInvalidUsage, a failing collective    *)
(* returns its error: both before the flag and the list are cleared.       *)
(***************************************************************************)
RECURSIVE FallBackLoop(_, _, _, _)
FallBackLoop(saved, i, failAt, events) ==
  IF i > Len(saved)
  THEN [ret |-> ncclSuccess, saved |-> <<>>, isCaller |-> FALSE, events |-> events]
  ELSE IF saved[i].func \notin FallBackFuncs
       THEN [ret |-> ncclInvalidUsage, saved |-> saved, isCaller |-> TRUE,
             events |-> events]
       ELSE IF i = failAt
            THEN [ret |-> ncclError, saved |-> saved, isCaller |-> TRUE,
                  events |-> Append(events, Event("fallback", saved[i], FALSE))]
            ELSE FallBackLoop(saved, i + 1, failAt,
                              Append(events, Event("fallback", saved[i], TRUE)))

mscclFallBackSavedParams(saved, failAt) == FallBackLoop(saved, 1, failAt, <<>>)

(***************************************************************************)
(* mscclEnqueueCheck, as a function of the thread's state: the result      *)
(* record holds the thread's state, the registry map (the selector's       *)
(* operator[] may insert into it) and what was invoked.                    *)
(***************************************************************************)
Outcome(ret, status, saved, isCaller, events, selects, r2h, path) ==
  [ret |-> ret, groupStatus |-> status, saved |-> saved, isCaller |-> isCaller,
   events |-> events, selects |-> selects, r2h |-> r2h, path |-> path]

\* the tail of a switch arm that ends in mscclFallBackSavedParams
FallBackArm(status, saved, failAt, selects, r2h) ==
  LET fb == mscclFallBackSavedParams(saved, failAt)
  IN Outcome(fb.ret, status, fb.saved, fb.isCaller, fb.events, selects, r2h, "fallback")

\* case mscclGroupSupportedOp after a rejection: the state becomes
\* mscclGroupUnsupportedOp, the saved calls fall back, and control falls
\* through into case mscclGroupUnsupportedOp, which falls back again
DowngradeArm(saved, failAt, selects, r2h) ==
  LET fb == mscclFallBackSavedParams(saved, failAt)
  IN IF fb.ret # ncclSuccess
     THEN Outcome(fb.ret, "GroupUnsupportedOp", fb.saved, fb.isCaller, fb.events,
                  selects, r2h, "fallback")
     ELSE LET fb2 == mscclFallBackSavedParams(fb.saved, 0)
          IN Outcome(fb2.ret, "GroupUnsupportedOp", fb2.saved, fb2.isCaller,
                     fb.events \o fb2.events, selects, r2h, "fallback")

\* s is what mscclSchedulerSelectAlgo answers when the arm taken calls it
EnqueueCheckWith(status, saved0, isCaller0, p, compatible, failAt, s) ==
  LET saved1 == Append(saved0, p)
      saved2 == [saved1 EXCEPT ![Len(saved1)].scheduled = s.scheduled,
                               ![Len(saved1)].handle = s.handle]
  IN CASE status = "NoGroup" ->
            IF compatible
            THEN IF s.ret # ncclSuccess
                 THEN Outcome(s.ret, status, saved1, isCaller0, <<>>, 1, s.r2h, "select")
                 ELSE IF s.scheduled
                      THEN LET run == mscclRunSavedParams(saved2, failAt)
                           IN Outcome(run.ret, status, run.saved, isCaller0,
                                      run.events, 1, s.r2h, "run")
                      ELSE FallBackArm(status, saved2, failAt, 1, s.r2h)
            ELSE FallBackArm(status, saved1, failAt, 0, rankToAlgoHandles)
       [] status = "GroupSupportedOp" ->
            IF compatible
            THEN IF s.ret # ncclSuccess
                 THEN Outcome(s.ret, status, saved1, isCaller0, <<>>, 1, s.r2h, "select")
                 ELSE IF s.scheduled
                      THEN \* mscclSaveCountsAndDispls: the call stays batched
                           Outcome(ncclSuccess, status, saved2, isCaller0, <<>>,
                                   1, s.r2h, "batch")
                      ELSE DowngradeArm(saved2, failAt, 1, s.r2h)
            ELSE DowngradeArm(saved1, failAt, 0, rankToAlgoHandles)
       [] status = "GroupUnsupportedOp" ->
            FallBackArm(status, saved1, failAt, 0, rankToAlgoHandles)

EnqueueCheck(status, saved0, isCaller0, p, compatible, failAt, ext) ==
  EnqueueCheckWith(status, saved0, isCaller0, p, compatible, failAt,
                   mscclSchedulerSelectAlgo(p, mscclSchedulerPtr, algoMetas,
                                            rankToAlgoHandles, ext))

\* mscclAvailable() and mscclIsCaller(): a collective hands its call to
\* mscclEnqueueCheck only when the first is true and the second false
mscclAvailable == mscclInitialized

mscclIsCaller(t) == mscclIsCallerFlag[t]

\* the collective's entry conditions
EnqueueEnabled(t, call) ==
  /\ Len(issued[t]) < MaxCalls
  /\ comms[call.comm] # NoComm
  /\ comms[call.comm].inited
  /\ mscclAvailable
  /\ ~mscclIsCaller(t)

\* the call's effect, o being what EnqueueCheck computes for it; the thread
\* is back in the application afterwards
EnqueueApply(t, call, failAt, ext, o) ==
  /\ failAt # 0 => faults < MaxFaults
  /\ ext = "fail" => faults < MaxFaults
  /\ failAt # 0 => (o.events # <<>> /\ ~o.events[Len(o.events)].ok)
  /\ ext # "none" <=> (o.selects = 1 /\ mscclSchedulerPtr # "null")
  /\ groupStatus' = [groupStatus EXCEPT ![t] = o.groupStatus]
  /\ savedSchedulerParams' = [savedSchedulerParams EXCEPT ![t] = o.saved]
  /\ mscclIsCallerFlag' = [mscclIsCallerFlag EXCEPT ![t] = o.isCaller]
  /\ rankToAlgoHandles' = o.r2h
  /\ dispatched' = [dispatched EXCEPT ![t] = @ \o o.events]
  /\ issued' = [issued EXCEPT ![t] = Append(@, call.comm)]
  /\ selectCalls' = selectCalls + o.selects
  /\ lastRet' = [lastRet EXCEPT ![t] = o.ret]
  /\ faults' = IF o.ret \in {ncclSuccess, ncclInvalidUsage} THEN faults
               ELSE faults + 1
  /\ pc' = [pc EXCEPT ![t] = [at |-> "idle", comm |-> "none"]]
  /\ UNCHANGED <<algoMetas, freeAlgoHandles, hostAlgos, connectedAlgos,
                 mscclSchedulerPtr, mscclSchedulerLib, syncFlags, mscclInitialized,
                 mscclAlgoMetaLoaded, kernelsReady, env, comms, groupDepth,
                 groupFirst, loadCalls, connectCalls, lastLife, sel>>

mscclEnqueueCheck(t, call, failAt, ext) ==
  /\ pc[t].at = "idle"
  /\ EnqueueEnabled(t, call)
  /\ LET p == mscclSetSavedSchedulerParam(Len(issued[t]) + 1, call)
     IN EnqueueApply(t, call, failAt, ext,
                     EnqueueCheck(groupStatus[t], savedSchedulerParams[t],
                                  mscclIsCallerFlag[t], p,
                                  comms[call.comm].mscclCompatible, failAt, ext))

(***************************************************************************)
(* mscclGroupStart and mscclGroupEnd.  The callers pair them: an end is    *)
(* only issued inside a group.                                             *)
(***************************************************************************)
mscclGroupStart_Reset(t) ==
  /\ pc[t].at = "idle"
  /\ groupDepth[t] < MaxDepth
  /\ groupDepth' = [groupDepth EXCEPT ![t] = @ + 1]
  /\ groupStatus' = [groupStatus EXCEPT ![t] = "GroupSupportedOp"]
  /\ groupFirst' = [groupFirst EXCEPT ![t] =
                      IF groupDepth[t] = 0 THEN Len(issued[t]) + 1 ELSE @]
  /\ lastRet' = [lastRet EXCEPT ![t] = ncclSuccess]
  /\ UNCHANGED <<statusVars, env, comms, savedSchedulerParams, mscclIsCallerFlag, pc,
                 dispatched, issued, selectCalls, loadCalls, connectCalls, lastLife,
                 faults, sel>>

mscclGroupStart(t) ==
  /\ pc[t].at = "idle"
  /\ groupDepth[t] < MaxDepth
  /\ groupDepth' = [groupDepth EXCEPT ![t] = @ + 1]
  /\ groupStatus' = [groupStatus EXCEPT ![t] =
                       IF @ = "NoGroup" THEN "GroupSupportedOp" ELSE @]
  /\ groupFirst' = [groupFirst EXCEPT ![t] =
                      IF groupDepth[t] = 0 THEN Len(issued[t]) + 1 ELSE @]
  /\ lastRet' = [lastRet EXCEPT ![t] = ncclSuccess]
  /\ UNCHANGED <<statusVars, env, comms, savedSchedulerParams, mscclIsCallerFlag, pc,
                 dispatched, issued, selectCalls, loadCalls, connectCalls, lastLife,
                 faults, sel>>

\* depth is the value already decremented
GroupEnd(status, depth, saved, failAt) ==
  IF depth = 0
  THEN IF status = "GroupSupportedOp"
       THEN LET run == mscclRunSavedParams(saved, failAt)
            IN [ret |-> run.ret, saved |-> run.saved, events |-> run.events,
                groupStatus |-> IF run.ret = ncclSuccess THEN "NoGroup" ELSE status]
       ELSE [ret |-> ncclSuccess, saved |-> saved, events |-> <<>>,
             groupStatus |-> "NoGroup"]
  ELSE [ret |-> ncclSuccess, saved |-> saved, events |-> <<>>, groupStatus |-> status]

mscclGroupEnd(t, failAt) ==
  /\ pc[t].at = "idle"
  /\ groupDepth[t] > 0
  /\ failAt # 0 => faults < MaxFaults
  /\ LET o == GroupEnd(groupStatus[t], groupDepth[t] - 1, savedSchedulerParams[t], failAt)
     IN /\ failAt # 0 => o.ret # ncclSuccess
        /\ groupDepth' = [groupDepth EXCEPT ![t] = @ - 1]
        /\ groupStatus' = [groupStatus EXCEPT ![t] = o.groupStatus]
        /\ savedSchedulerParams' = [savedSchedulerParams EXCEPT ![t] = o.saved]
        /\ dispatched' = [dispatched EXCEPT ![t] = @ \o o.events]
        /\ lastRet' = [lastRet EXCEPT ![t] = o.ret]
        /\ faults' = IF o.ret = ncclSuccess THEN faults ELSE faults + 1
  /\ UNCHANGED <<statusVars, env, comms, mscclIsCallerFlag, pc, issued, groupFirst,
                 selectCalls, loadCalls, connectCalls, lastLife, sel>>

(***************************************************************************)
(* The algorithm directory: the files mscclInternalSchedulerInit finds, in *)
(* the order of the std::set of their paths, each with the record          *)
(* mscclGetAlgoMetaFromXmlFile parses from it.                             *)
(***************************************************************************)
Meta(path, func, nRanks, nChannels, minBytes, maxBytes, inPlace, outOfPlace) ==
  [filePath |-> path, func |-> func, nRanks |-> nRanks, nChannels |-> nChannels,
   minBytes |-> minBytes, maxBytes |-> maxBytes, inPlace |-> inPlace,
   outOfPlace |-> outOfPlace, nChunksPerLoop |-> 1, sizeMultiplier |-> 1]

AlgoDir == << Meta(1, "Broadcast", 2, 2, 2, 0, FALSE, TRUE),
              Meta(2, "Broadcast", 2, 4, 4, 0, TRUE, TRUE),
              Meta(3, "AllGather", 3, 1, 0, 0, TRUE, TRUE) >>

\* what emplace_back() leaves when the parse of the file fails
EmptyMeta == [filePath |-> 0, func |-> "none", nRanks |-> 0, nChannels |-> 0,
              minBytes |-> 0, maxBytes |-> 0, inPlace |-> FALSE, outOfPlace |-> FALSE,
              nChunksPerLoop |-> 0, sizeMultiplier |-> 0]

RECURSIVE MaxChannels(_, _, _)
MaxChannels(metas, nRanks, i) ==
  IF i > Len(metas) THEN 0
  ELSE Max(IF metas[i].nRanks = nRanks THEN metas[i].nChannels ELSE 0,
           MaxChannels(metas, nRanks, i + 1))

\* vector::resize(n): keeps what is there, appends empty maps
Resize(r2h, n) == [i \in 1..n |-> IF i <= Len(r2h) THEN r2h[i] ELSE EmptyMap]

(***************************************************************************)
(* mscclInternalSchedulerInit.  parseFailAt: the file whose parse fails    *)
(* (0: none); closeFail: closedir fails.                                   *)
(***************************************************************************)
mscclInternalSchedulerInit(nRanks, parseFailAt, closeFail) ==
  IF mscclAlgoMetaLoaded
  THEN [ret |-> ncclSuccess, algoMetas |-> algoMetas, r2h |-> rankToAlgoHandles,
        loaded |-> TRUE, numChannels |-> MaxChannels(algoMetas, nRanks, 1)]
  ELSE IF ~env.dir
       THEN [ret |-> ncclInvalidUsage, algoMetas |-> algoMetas,
             r2h |-> rankToAlgoHandles, loaded |-> FALSE, numChannels |-> 0]
       ELSE IF parseFailAt # 0
            THEN [ret |-> ncclError,
                  algoMetas |-> algoMetas \o SubSeq(AlgoDir, 1, parseFailAt - 1)
                                          \o <<EmptyMeta>>,
                  r2h |-> rankToAlgoHandles, loaded |-> FALSE,
                  numChannels |-> MaxChannels(SubSeq(AlgoDir, 1, parseFailAt - 1),
                                              nRanks, 1)]
            ELSE IF closeFail
                 THEN [ret |-> ncclInvalidUsage, algoMetas |-> algoMetas \o AlgoDir,
                       r2h |-> rankToAlgoHandles, loaded |-> FALSE,
                       numChannels |-> MaxChannels(AlgoDir, nRanks, 1)]
                 ELSE [ret |-> ncclSuccess, algoMetas |-> algoMetas \o AlgoDir,
                       r2h |-> Resize(rankToAlgoHandles, Len(algoMetas \o AlgoDir)),
                       loaded |-> TRUE,
                       numChannels |-> MaxChannels(AlgoDir, nRanks, 1)]

\* comm->intraRanks: the ranks of the comm that live in this rank's process
IntraRanks(d) ==
  Cardinality({i \in 1..d.nRanks : d.peerInfo[i] = d.peerInfo[d.rank + 1]})

NewComm(d, compatible, ok, numChannels) ==
  [nRanks |-> d.nRanks, rank |-> d.rank, peerInfo |-> d.peerInfo,
   intraRanks |-> IntraRanks(d), mscclCompatible |-> compatible,
   schedInit |-> ok, initCalled |-> FALSE, inited |-> FALSE,
   numChannels |-> numChannels]

DescOf(c) == [nRanks |-> comms[c].nRanks, rank |-> comms[c].rank,
              peerInfo |-> comms[c].peerInfo]

(***************************************************************************)
(* mscclSchedulerInit(comm, &numChannelsRequired), the whole call under    *)
(* mscclLifecycleMutex.  d describes the comm the caller built.            *)
(* lifeFail: "none" | "parse" | "closedir" | "plugin" (at parseFailAt).    *)
(***************************************************************************)
mscclSchedulerInit(t, c, d, lifeFail, parseFailAt) ==
  /\ pc[t].at = "idle"
  /\ \/ comms[c] = NoComm
     \/ comms[c] # NoComm /\ ~comms[c].schedInit /\ d = DescOf(c)
  /\ lifeFail # "none" => faults < MaxFaults
  /\ (lifeFail = "parse") <=> (parseFailAt # 0)
  /\ LET compatible == mscclCommCompatible(d.peerInfo)
         lib == IF env.lib THEN "lib" ELSE "null"
         ptr == IF lib = "null" THEN mscclSchedulerPtr
                ELSE IF env.sym THEN "plugin" ELSE "null"
         useInternalScheduler == (lib = "null") \/ (ptr = "null")
         r == mscclInternalSchedulerInit(d.nRanks, parseFailAt, lifeFail = "closedir")
     IN IF ~compatible
        THEN /\ lifeFail = "none"
             /\ comms' = [comms EXCEPT ![c] = NewComm(d, FALSE, TRUE, 0)]
             /\ lastRet' = [lastRet EXCEPT ![t] =
                              ncclSuccess]
             /\ UNCHANGED <<statusVars, faults>>
        ELSE /\ mscclSchedulerLib' = lib
             /\ mscclSchedulerPtr' = ptr
             /\ IF useInternalScheduler
                THEN /\ lifeFail \in {"parse", "closedir"} =>
                          (~mscclAlgoMetaLoaded /\ env.dir)
                     /\ lifeFail # "plugin"
                     /\ algoMetas' = r.algoMetas
                     /\ rankToAlgoHandles' = r.r2h
                     /\ mscclAlgoMetaLoaded' = r.loaded
                     /\ comms' = [comms EXCEPT ![c] =
                                    NewComm(d, TRUE, r.ret = ncclSuccess, r.numChannels)]
                     /\ lastRet' = [lastRet EXCEPT ![t] =
                                      r.ret]
                ELSE /\ lifeFail \in {"none", "plugin"}
                     /\ comms' = [comms EXCEPT ![c] =
                                    IF lifeFail = "plugin" THEN NewComm(d, TRUE, FALSE, 0)
                                    ELSE NewComm(d, TRUE, TRUE, MAXCHANNELS)]
                     /\ lastRet' = [lastRet EXCEPT ![t] =
                                      IF lifeFail = "plugin" THEN ncclError
                                               ELSE ncclSuccess]
                     /\ UNCHANGED <<algoMetas, rankToAlgoHandles, mscclAlgoMetaLoaded>>
             /\ faults' = IF lifeFail = "none" THEN faults ELSE faults + 1
             /\ UNCHANGED <<freeAlgoHandles, hostAlgos, connectedAlgos, syncFlags,
                            mscclInitialized, kernelsReady>>
  /\ lastLife' = [op |-> "mscclSchedulerInit", comm |-> c, ret |-> lastRet'[t],
                  wasInit |-> mscclInitialized]
  /\ UNCHANGED <<env, threadVars, pc, dispatched, issued, groupFirst, selectCalls,
                 loadCalls, connectCalls, sel>>

(***************************************************************************)
(* The loader and the connector, which live outside this file.             *)
(* mscclLoadAlgo takes the handle at the back of the free list and records *)
(* the loaded algorithm under it; with no free handle, or when reading the *)
(* file fails, it returns an error and changes nothing.                    *)
(***************************************************************************)
\* what hostAlgos holds under a handle: the algorithm loaded from a file
\* ("algo"), a null pointer inserted by operator[] ("null"), or a pointer
\* that has been passed to free() ("freed")
AlgoAt(state, path) == [state |-> state, path |-> path]

mscclLoadAlgo(path, free, host, fails) ==
  IF free = <<>>
  THEN [ret |-> ncclInvalidUsage, free |-> free, host |-> host, handle |-> 0]
  ELSE IF fails
       THEN [ret |-> ncclError, free |-> free, host |-> host, handle |-> 0]
       ELSE [ret |-> ncclSuccess, free |-> SubSeq(free, 1, Len(free) - 1),
             host |-> MapPut(host, free[Len(free)], AlgoAt("algo", path)),
             handle |-> free[Len(free)]]

(***************************************************************************)
(* The pre-processing loop of mscclInit (lines 249-265) for one comm, from *)
(* registry index i on.  st carries the parts of mscclStatus it touches    *)
(* and the invocations made; fail = [kind, at] names the collaborator      *)
(* invocation that fails ("load" or "connect" at registry index at).       *)
(***************************************************************************)
LoadStep_Always(st, path, rank, i, fail) ==
  LET ld == mscclLoadAlgo(path, st.free, st.host,
                           fail = [kind |-> "load", at |-> i])
  IN [st EXCEPT !.r2h[i] = MapPut(@, rank, ld.handle),
                !.free = ld.free, !.host = ld.host, !.ret = ld.ret,
                !.loads = Append(@, <<i, rank>>)]

\* "Load algorithms": only when the rank has no handle recorded for the entry
LoadStep(st, path, rank, i, fail) ==
  IF rank \in DOMAIN st.r2h[i] THEN st
  ELSE LET ld == mscclLoadAlgo(path, st.free, st.host,
                           fail = [kind |-> "load", at |-> i])
       IN [st EXCEPT !.r2h[i] = MapPut(@, rank, ld.handle),
                     !.free = ld.free, !.host = ld.host, !.ret = ld.ret,
                     !.loads = Append(@, <<i, rank>>)]

\* "Connect algorithms": only when the handle is not yet connected for the comm
ConnectStep(st, c, rank, i, fail) ==
  LET h == st.r2h[i][rank]
      ok == fail # [kind |-> "connect", at |-> i]
  IN IF h \in st.conn THEN st
     ELSE [st EXCEPT !.host = MapPut(@, h, IF h \in DOMAIN @ THEN @[h]
                                           ELSE AlgoAt("null", 0)),
                     !.conn = IF ok THEN @ \cup {h} ELSE @,
                     !.ret = IF ok THEN ncclSuccess ELSE ncclError,
                     !.connects = Append(@, <<c, h, ok>>)]

RECURSIVE PreprocessLoop(_, _, _, _, _, _)
PreprocessLoop(st, metas, c, cm, i, fail) ==
  IF i > Len(metas) THEN st
  ELSE IF metas[i].nRanks # cm.nRanks
       THEN PreprocessLoop(st, metas, c, cm, i + 1, fail)
       ELSE LET s1 == LoadStep(st, metas[i].filePath, cm.rank, i, fail)
            IN IF s1.ret # ncclSuccess THEN s1
               ELSE LET s2 == ConnectStep(s1, c, cm.rank, i, fail)
                    IN IF s2.ret # ncclSuccess THEN s2
                       ELSE PreprocessLoop(s2, metas, c, cm, i + 1, fail)

\* freeAlgoHandles[i] = MSCCL_MAX_NUM_ALGOS - i - 1: the stack MAX-1 .. 0
InitialFreeHandles == [i \in 1..MSCCL_MAX_NUM_ALGOS |-> MSCCL_MAX_NUM_ALGOS - i]

NoFail == [kind |-> "none", at |-> 0]

MultiGpuPerProcess_Never(cm) == FALSE

\* line 219: more than one rank of the comm lives in this process
MultiGpuPerProcess(cm) == cm.intraRanks > 1

(***************************************************************************)
(* mscclInit(comm), first part: lines 218-278, the early return and the    *)
(* block under mscclLifecycleMutex; the thread is back in the application  *)
(* or goes on to the second part.  The thread-local reset of lines 225-229 *)
(* writes to a copy of the thread's status (the variable is not a          *)
(* reference), so the thread's own status is unchanged.                    *)
(***************************************************************************)
mscclInitFrom(t, c, fail) ==
  /\ comms[c] # NoComm
  /\ comms[c].schedInit
  /\ fail # NoFail => faults < MaxFaults
  /\ IF MultiGpuPerProcess(comms[c])
     THEN /\ fail = NoFail
          /\ mscclInitialized' = FALSE
          /\ comms' = [comms EXCEPT ![c].inited = TRUE, ![c].initCalled = TRUE]
          /\ lastRet' = [lastRet EXCEPT ![t] = ncclSuccess]
          /\ pc' = [pc EXCEPT ![t] = [at |-> "idle", comm |-> "none"]]
          /\ UNCHANGED <<algoMetas, rankToAlgoHandles, freeAlgoHandles, hostAlgos,
                         connectedAlgos, mscclSchedulerPtr, mscclSchedulerLib, syncFlags,
                         mscclAlgoMetaLoaded, kernelsReady, loadCalls, connectCalls,
                         faults>>
     ELSE LET st0 == [r2h |-> rankToAlgoHandles,
                      free |-> IF mscclInitialized THEN freeAlgoHandles
                               ELSE InitialFreeHandles,
                      host |-> hostAlgos, conn |-> connectedAlgos[c],
                      loads |-> <<>>, connects |-> <<>>, ret |-> ncclSuccess]
              st == IF comms[c].mscclCompatible /\ mscclSchedulerPtr = "null"
                    THEN PreprocessLoop(st0, algoMetas, c, comms[c], 1, fail)
                    ELSE st0
              callocFails == (fail.kind = "calloc")
              ret == IF st.ret # ncclSuccess THEN st.ret
                     ELSE IF mscclInitialized THEN ncclSuccess
                     ELSE IF callocFails THEN ncclError ELSE ncclSuccess
          IN /\ fail.kind \in {"load", "connect"} => st.ret = ncclError
             /\ callocFails => (st.ret = ncclSuccess /\ ~mscclInitialized)
             /\ rankToAlgoHandles' = st.r2h
             /\ freeAlgoHandles' = st.free
             /\ hostAlgos' = st.host
             /\ connectedAlgos' = [connectedAlgos EXCEPT ![c] = st.conn]
             /\ loadCalls' = loadCalls \o st.loads
             /\ connectCalls' = connectCalls \o st.connects
             /\ faults' = IF fail = NoFail THEN faults ELSE faults + 1
             /\ IF ret = ncclSuccess /\ ~mscclInitialized
                THEN \* lines 271-277: the flag is stored, the lock released
                     /\ syncFlags' = "allocated"
                     /\ mscclInitialized' = TRUE
                     /\ pc' = [pc EXCEPT ![t] = [at |-> "kernels", comm |-> c]]
                     /\ comms' = [comms EXCEPT ![c].initCalled = TRUE]
                     /\ UNCHANGED lastRet
                ELSE /\ comms' = [comms EXCEPT ![c].inited = (ret = ncclSuccess),
                                               ![c].initCalled = TRUE]
                     /\ lastRet' = [lastRet EXCEPT ![t] = ret]
                     /\ pc' = [pc EXCEPT ![t] = [at |-> "idle", comm |-> "none"]]
                     /\ UNCHANGED <<syncFlags, mscclInitialized>>
             /\ UNCHANGED <<algoMetas, mscclSchedulerPtr, mscclSchedulerLib,
                            mscclAlgoMetaLoaded, kernelsReady>>
  /\ lastLife' = [op |-> "mscclInit", comm |-> c,
                  ret |-> IF pc'[t].at = "kernels" THEN "pending" ELSE lastRet'[t],
                  wasInit |-> mscclInitialized]
  /\ UNCHANGED <<env, threadVars, dispatched, issued, groupFirst, selectCalls, sel>>

mscclInit(t, c, fail) ==
  /\ pc[t].at = "idle"
  /\ mscclInitFrom(t, c, fail)

(***************************************************************************)
(* mscclInit(comm), second part: lines 281-293, outside the lock, run only *)
(* by the call that stored the flag.  kernelFail: mscclInitKernelsForDevice*)
(* fails.                                                                  *)
(***************************************************************************)
mscclInitKernels(t, kernelFail) ==
  /\ pc[t].at = "kernels"
  /\ kernelFail => faults < MaxFaults
  /\ kernelsReady' = (kernelsReady \/ ~kernelFail)
  /\ comms' = [comms EXCEPT ![pc[t].comm].inited = ~kernelFail]
  /\ lastRet' = [lastRet EXCEPT ![t] =
                   IF kernelFail THEN ncclError ELSE ncclSuccess]
  /\ faults' = IF kernelFail THEN faults + 1 ELSE faults
  /\ pc' = [pc EXCEPT ![t] = [at |-> "idle", comm |-> "none"]]
  /\ lastLife' = [op |-> "mscclInit", comm |-> pc[t].comm, ret |-> lastRet'[t],
                  wasInit |-> FALSE]
  /\ UNCHANGED <<algoMetas, rankToAlgoHandles, freeAlgoHandles, hostAlgos,
                 connectedAlgos, mscclSchedulerPtr, mscclSchedulerLib, syncFlags,
                 mscclInitialized, mscclAlgoMetaLoaded, env, threadVars, dispatched,
                 issued, groupFirst, selectCalls, loadCalls, connectCalls, sel>>

(***************************************************************************)
(* mscclTeardown.  Its first statement clears savedSchedulerParams of a    *)
(* copy of the thread's status, so the thread's own list is unchanged.     *)
(* tdFail: "none" | "cudaFree" (one of the ncclCudaFree calls fails) |     *)
(* "scheduler" (the plugin's teardown, or the first mscclUnloadAlgo).      *)
(***************************************************************************)
RECURSIVE KeysAscending(_)
KeysAscending(ks) ==
  IF ks = {} THEN <<>>
  ELSE LET k == CHOOSE x \in ks : \A y \in ks : x <= y
       IN <<k>> \o KeysAscending(ks \ {k})

\* the handles of rankToAlgoHandles in iteration order: entry by entry, by rank
RECURSIVE RegistryHandles(_, _)
RegistryHandles(r2h, i) ==
  IF i > Len(r2h) THEN <<>>
  ELSE LET ks == KeysAscending(DOMAIN r2h[i])
       IN [j \in 1..Len(ks) |-> r2h[i][ks[j]]] \o RegistryHandles(r2h, i + 1)

\* mscclUnloadAlgo, outside this file: the handle goes back to the free list
mscclUnloadAlgo(free, h, fails) ==
  IF fails THEN [ret |-> ncclError, free |-> free]
  ELSE [ret |-> ncclSuccess, free |-> Append(free, h)]

RECURSIVE UnloadLoop(_, _, _, _, _)
UnloadLoop(hs, i, free, ret, failFirst) ==
  IF i > Len(hs) THEN [ret |-> ret, free |-> free]
  ELSE LET u == mscclUnloadAlgo(free, hs[i], failFirst /\ i = 1)
       IN UnloadLoop(hs, i + 1, u.free, IF ret = ncclSuccess THEN u.ret ELSE ret,
                     failFirst)

mscclInternalSchedulerTeardown(r2h, free, failFirst) ==
  UnloadLoop(RegistryHandles(r2h, 1), 1, free, ncclSuccess, failFirst)

\* lines 547-550: every handle of hostAlgos is pushed back
PushBackAll(free, host) ==
  LET ks == KeysAscending(DOMAIN host) IN free \o ks

\* lines 547-558: the free list after the push_back loop and the clear()
FreeListAfterRelease(free, host) == <<>>

mscclTeardown(t, tdFail) ==
  /\ pc[t].at = "idle"
  /\ tdFail # "none" => faults < MaxFaults
  /\ IF ~mscclInitialized
     THEN /\ tdFail = "none"
          /\ lastRet' = [lastRet EXCEPT ![t] = ncclSuccess]
          /\ UNCHANGED <<statusVars, faults>>
     ELSE IF tdFail = "cudaFree"
          THEN /\ freeAlgoHandles' = PushBackAll(freeAlgoHandles, hostAlgos)
               /\ hostAlgos' = [h \in DOMAIN hostAlgos |->
                                   AlgoAt("freed", hostAlgos[h].path)]
               /\ lastRet' = [lastRet EXCEPT ![t] =
                                ncclError]
               /\ faults' = faults + 1
               /\ UNCHANGED <<algoMetas, rankToAlgoHandles, connectedAlgos,
                              mscclSchedulerPtr, mscclSchedulerLib, syncFlags,
                              mscclInitialized, mscclAlgoMetaLoaded, kernelsReady>>
          ELSE LET free1 == FreeListAfterRelease(freeAlgoHandles, hostAlgos)
                   td == mscclInternalSchedulerTeardown(rankToAlgoHandles, free1,
                                                        tdFail = "scheduler")
                   ret == IF mscclSchedulerPtr # "null"
                          THEN IF tdFail = "scheduler" THEN ncclError ELSE ncclSuccess
                          ELSE td.ret
               IN /\ tdFail = "scheduler" => ret = ncclError
                  /\ hostAlgos' = EmptyMap
                  /\ connectedAlgos' = [c \in CommIds |-> {}]
                  /\ syncFlags' = "freed"
                  /\ IF mscclSchedulerPtr # "null"
                     THEN /\ freeAlgoHandles' = free1
                          /\ mscclSchedulerPtr' = IF ret = ncclSuccess THEN "null"
                                                  ELSE mscclSchedulerPtr
                          /\ mscclSchedulerLib' = IF ret = ncclSuccess THEN "null"
                                                  ELSE mscclSchedulerLib
                          /\ UNCHANGED <<algoMetas, rankToAlgoHandles>>
                     ELSE /\ freeAlgoHandles' = td.free
                          /\ algoMetas' = <<>>
                          /\ rankToAlgoHandles' = <<>>
                          /\ UNCHANGED <<mscclSchedulerPtr, mscclSchedulerLib>>
                  /\ mscclInitialized' = (ret # ncclSuccess)
                  /\ lastRet' = [lastRet EXCEPT ![t] =
                                   ret]
                  /\ faults' = IF tdFail = "none" THEN faults ELSE faults + 1
                  /\ UNCHANGED <<mscclAlgoMetaLoaded, kernelsReady>>
  /\ lastLife' = [op |-> "mscclTeardown", comm |-> "none", ret |-> lastRet'[t],
                  wasInit |-> mscclInitialized]
  /\ UNCHANGED <<env, comms, threadVars, pc, dispatched, issued, groupFirst, selectCalls,
                 loadCalls, connectCalls, sel>>

(***************************************************************************)
(* The state after construction: nothing initialized, no comm, every       *)
(* thread outside any group.                                               *)
(***************************************************************************)
\* the process before any call, but for the registry
InitProcess ==
  /\ freeAlgoHandles = <<>>
  /\ hostAlgos = EmptyMap
  /\ connectedAlgos = [c \in CommIds |-> {}]
  /\ mscclSchedulerPtr = "null"
  /\ mscclSchedulerLib = "null"
  /\ syncFlags = "unset"
  /\ mscclInitialized = FALSE
  /\ mscclAlgoMetaLoaded = FALSE
  /\ kernelsReady = FALSE
  /\ comms = [c \in CommIds |-> NoComm]
  /\ groupStatus = [t \in Threads |-> "NoGroup"]
  /\ groupDepth = [t \in Threads |-> 0]
  /\ savedSchedulerParams = [t \in Threads |-> <<>>]
  /\ mscclIsCallerFlag = [t \in Threads |-> FALSE]
  /\ pc = [t \in Threads |-> [at |-> "idle", comm |-> "none"]]
  /\ dispatched = [t \in Threads |-> <<>>]
  /\ issued = [t \in Threads |-> <<>>]
  /\ groupFirst = [t \in Threads |-> 1]
  /\ selectCalls = 0
  /\ loadCalls = <<>>
  /\ connectCalls = <<>>
  /\ lastRet = [t \in Threads |-> ncclSuccess]
  /\ lastLife = [op |-> "none", comm |-> "none", ret |-> ncclSuccess, wasInit |-> FALSE]
  /\ faults = 0

InitState ==
  /\ InitProcess
  /\ algoMetas = <<>>
  /\ rankToAlgoHandles = <<>>
  /\ sel = [kind |-> "none"]

(***************************************************************************)
(* Spec: one thread issuing collectives on two comms, one compatible and   *)
(* one not, with the built-in or an external scheduler.                    *)
(***************************************************************************)
Desc(nRanks, rank, peerInfo) == [nRanks |-> nRanks, rank |-> rank, peerInfo |-> peerInfo]

GroupDesc == [c \in CommIds |->
                IF c = "cA" THEN Desc(2, 0, << <<1, 1>>, <<2, 1>> >>)
                ELSE Desc(3, 0, << <<1, 1>>, <<2, 1>>, <<2, 1>> >>)]

Call(comm, func, count, typeSize, sendBuff, recvBuff) ==
  [comm |-> comm, func |-> func, count |-> count, typeSize |-> typeSize,
   sendBuff |-> sendBuff, recvBuff |-> recvBuff, op |-> 0]

GroupCalls == { Call("cA", "Broadcast", 2, 2, 1, 1),   \* in place: matches entry 2
                Call("cA", "Broadcast", 1, 1, 0, 1),   \* below every minBytes
                Call("cA", "Gather", 2, 1, 0, 1),      \* no entry, no fallback case
                Call("cB", "Broadcast", 2, 1, 0, 1) }  \* incompatible comm

ExtAnswers == {"none", "fail", "nomatch", "match"}

\* the application creates its communicators before it issues collectives
CommsReady == \A c \in CommIds : comms[c] # NoComm /\ comms[c].inited

Init ==
  /\ InitState
  /\ env \in {[lib |-> FALSE, sym |-> TRUE, dir |-> TRUE],
              [lib |-> TRUE, sym |-> TRUE, dir |-> TRUE]}

Next ==
  \/ \E c \in CommIds : mscclSchedulerInit("t1", c, GroupDesc[c], "none", 0)
  \/ \E c \in CommIds : comms[c] # NoComm /\ ~comms[c].inited /\ mscclInit("t1", c, NoFail)
  \/ mscclInitKernels("t1", FALSE)
  \/ CommsReady /\ mscclGroupStart("t1")
  \/ \E call \in GroupCalls, failAt \in 0..MaxCalls, ext \in ExtAnswers :
        CommsReady /\ mscclEnqueueCheck("t1", call, failAt, ext)
  \/ \E failAt \in 0..MaxCalls : CommsReady /\ mscclGroupEnd("t1", failAt)

Spec == Init /\ [][Next]_vars

(***************************************************************************)
(* SpecLife: two threads creating, initializing and tearing down two comms *)
(* (the second one either of the first one's shape or with both ranks in   *)
(* this process), with the built-in or an external scheduler, any          *)
(* collaborator failing.                                                   *)
(***************************************************************************)
LifeDesc == [c \in CommIds |-> Desc(2, 0, << <<1, 1>>, <<2, 1>> >>)]

\* both ranks of the comm in this process (intraRanks = 2)
MultiGpuDesc == Desc(2, 0, << <<1, 1>>, <<1, 1>> >>)

\* the shapes comm c may be created with
LifeDescs(c) == IF c = "cA" THEN {LifeDesc[c]} ELSE {LifeDesc[c], MultiGpuDesc}

SchedulerFails == {"none", "parse", "closedir", "plugin"}

InitFails ==
  {NoFail, [kind |-> "calloc", at |-> 0]}
    \cup {[kind |-> k, at |-> i] : k \in {"load", "connect"}, i \in 1..Len(AlgoDir)}

TeardownFails == {"none", "cudaFree", "scheduler"}

NextLife ==
  \/ \E t \in Threads, c \in CommIds, lifeFail \in SchedulerFails,
        parseFailAt \in 0..Len(AlgoDir) :
        \E d \in LifeDescs(c) : mscclSchedulerInit(t, c, d, lifeFail, parseFailAt)
  \/ \E t \in Threads, c \in CommIds, fail \in InitFails : mscclInit(t, c, fail)
  \/ \E t \in Threads, kernelFail \in BOOLEAN : mscclInitKernels(t, kernelFail)
  \/ \E t \in Threads, tdFail \in TeardownFails : mscclTeardown(t, tdFail)

SpecLife == Init /\ [][NextLife]_vars

(***************************************************************************)
(* SpecSelect: the built-in selector as a function.  Init draws a registry *)
(* of parsed records (mscclGetAlgoMetaFromXmlFile yields nChunksPerLoop    *)
(* and sizeMultiplier of at least 1), the handle maps and a call; the one  *)
(* action applies mscclInternalSchedulerSelectAlgo to them.                *)
(***************************************************************************)
MaxMetas == 2       \* registry entries (selector specification)

AllFuncs == SingleBufferFuncs \cup GatherFuncs \cup ScatterFuncs
              \cup {"Send", "Recv", "AllToAllv"}

BaseMeta == [filePath |-> 0, func |-> "Broadcast", nRanks |-> 2, nChannels |-> 1,
             minBytes |-> 0, maxBytes |-> 0, inPlace |-> TRUE, outOfPlace |-> TRUE,
             nChunksPerLoop |-> 1, sizeMultiplier |-> 1]

\* records that differ from BaseMeta in the field one condition reads
SelMetas == { BaseMeta,
              [BaseMeta EXCEPT !.func = "AllGather"],
              [BaseMeta EXCEPT !.nRanks = 3],
              [BaseMeta EXCEPT !.minBytes = 4],
              [BaseMeta EXCEPT !.maxBytes = 2],
              [BaseMeta EXCEPT !.inPlace = FALSE],
              [BaseMeta EXCEPT !.outOfPlace = FALSE],
              [BaseMeta EXCEPT !.nChunksPerLoop = 2],
              [BaseMeta EXCEPT !.sizeMultiplier = 2],
              [BaseMeta EXCEPT !.nChunksPerLoop = 2, !.sizeMultiplier = 2],
              [BaseMeta EXCEPT !.minBytes = 4, !.sizeMultiplier = 2] }

\* the registry in path order, and the handle loaded for rank 0 of entry i
\* (no handle is recorded for rank 1)
SelRegistries ==
  UNION { [1..n -> SelMetas] : n \in 0..MaxMetas }

SelHandles(n) == [i \in 1..n |-> MapPut(EmptyMap, 0, i)]

SelParam(func, count, typeSize, sendBuff, recvBuff, op, rank, nRanks) ==
  [func |-> func, count |-> count, typeSize |-> typeSize, sendBuff |-> sendBuff,
   recvBuff |-> recvBuff, op |-> op, rank |-> rank, nRanks |-> nRanks,
   scheduled |-> FALSE, handle |-> 0]

\* calls that exercise the matching conditions against the drawn registry
MatchParams ==
  { SelParam(f, n, ts, sb, 0, op, rank, nr) :
      f \in {"Broadcast", "AllGather"}, n \in 0..MaxCount, ts \in {1, 2},
      sb \in {0, 1}, op \in {0, ncclAvg}, rank \in {0, 1}, nr \in {2, 3} }

\* calls of every kind over every pair of buffer addresses, against AlgoDir
AliasParams ==
  { SelParam(f, n, ts, sb, rb, 0, rank, 2) :
      f \in AllFuncs, n \in 0..MaxCount, ts \in {1, 2},
      sb \in 0..MaxAddr, rb \in 0..MaxAddr, rank \in {0, 1} }

InitSelect ==
  /\ InitProcess
  /\ env = [lib |-> FALSE, sym |-> TRUE, dir |-> TRUE]
  /\ \/ /\ algoMetas \in SelRegistries
        /\ sel \in {[kind |-> "input", p |-> q] : q \in MatchParams}
     \/ /\ algoMetas = AlgoDir
        /\ sel \in {[kind |-> "input", p |-> q] : q \in AliasParams}
  /\ rankToAlgoHandles = SelHandles(Len(algoMetas))

SelectAlgo ==
  /\ sel.kind = "input"
  /\ LET r == mscclInternalSchedulerSelectAlgo(sel.p, algoMetas, rankToAlgoHandles)
     IN /\ sel' = [kind |-> "done", p |-> sel.p, ret |-> r.ret,
                   scheduled |-> r.scheduled, handle |-> r.handle,
                   isInPlace |-> isInPlace(sel.p)]
        /\ rankToAlgoHandles' = r.r2h
  /\ UNCHANGED <<algoMetas, freeAlgoHandles, hostAlgos, connectedAlgos,
                 mscclSchedulerPtr, mscclSchedulerLib, syncFlags, mscclInitialized,
                 mscclAlgoMetaLoaded, kernelsReady, env, comms, threadVars, pc,
                 dispatched, issued, groupFirst, selectCalls, loadCalls, connectCalls,
                 lastRet, lastLife, faults>>

NextSelect == SelectAlgo

SpecSelect == InitSelect /\ [][NextSelect]_vars

(***************************************************************************)
(* What a step of a thread did, read off the histories.  An event of the   *)
(* dispatch log counts as a dispatch whether or not the collaborator       *)
(* returned success.                                                       *)
(***************************************************************************)
NewEvents(t) == SubSeq(dispatched'[t], Len(dispatched[t]) + 1, Len(dispatched'[t]))

IsEnqueue(t) == Len(issued'[t]) = Len(issued[t]) + 1

IsGroupEnd(t) == groupDepth'[t] = groupDepth[t] - 1

\* the events are the calls first..last, in this order, each handed to kind
AllOfKind(evs, kind, first, last) ==
  /\ Len(evs) = Max(last - first + 1, 0)
  /\ \A i \in 1..Len(evs) : evs[i].kind = kind /\ evs[i].id = first + i - 1

\* the selector itself returned an error: the call was neither matched nor
\* rejected, and nothing was dispatched
SelectFailed(t) ==
  IsEnqueue(t) /\ NewEvents(t) = <<>> /\ lastRet'[t] = ncclError

(***************************************************************************)
(* C1.  In a group, the first call that is rejected (no match, or an       *)
(* incompatible comm) sends the calls of the group before it to the        *)
(* generic fallback in saved order and then itself; every later call of    *)
(* the group goes to fallback on its own; and nothing is handed to         *)
(* mscclRunAlgo while the group is downgraded, its mscclGroupEnd included. *)
(***************************************************************************)
C1_DowngradedGroupFallsBack ==
  [][ /\ (IsEnqueue("t1") /\ ~SelectFailed("t1")
            /\ groupStatus["t1"] = "GroupSupportedOp"
            /\ groupStatus'["t1"] = "GroupUnsupportedOp")
         => AllOfKind(NewEvents("t1"), "fallback", groupFirst["t1"],
                      Len(issued'["t1"]))
      /\ (IsEnqueue("t1") /\ groupStatus["t1"] = "GroupUnsupportedOp")
         => AllOfKind(NewEvents("t1"), "fallback", Len(issued'["t1"]),
                      Len(issued'["t1"]))
      /\ groupStatus["t1"] = "GroupUnsupportedOp"
         => \A i \in 1..Len(NewEvents("t1")) : NewEvents("t1")[i].kind # "run"
    ]_vars

(***************************************************************************)
(* C2.  In a group whose calls are all matched on compatible comms (the    *)
(* group is still GroupSupportedOp at its end), nothing is dispatched      *)
(* before the mscclGroupEnd that brings the depth to 0, and that           *)
(* mscclGroupEnd hands exactly the calls of the group to mscclRunAlgo, in  *)
(* the order they were issued, and none to fallback.                       *)
(***************************************************************************)
C2_MatchedGroupRunsAtEnd ==
  [][ /\ (IsEnqueue("t1") /\ groupStatus["t1"] = "GroupSupportedOp"
            /\ groupStatus'["t1"] = "GroupSupportedOp")
         => NewEvents("t1") = <<>>
      /\ (IsGroupEnd("t1") /\ groupDepth'["t1"] = 0
            /\ groupStatus["t1"] = "GroupSupportedOp")
         => AllOfKind(NewEvents("t1"), "run", groupFirst["t1"], Len(issued["t1"]))
    ]_vars

(***************************************************************************)
(* C3.  Nesting invariant: the thread's groupStatus is NoGroup exactly     *)
(* when its groupDepth is 0, and a mscclGroupEnd that leaves the depth     *)
(* above 0 dispatches nothing and leaves groupStatus as it was.            *)
(***************************************************************************)
C3_NestingInvariant ==
  /\ [](groupStatus["t1"] = "NoGroup" <=> groupDepth["t1"] = 0)
  /\ [][ (IsGroupEnd("t1") /\ groupDepth'["t1"] > 0)
         => (NewEvents("t1") = <<>> /\ groupStatus'["t1"] = groupStatus["t1"]) ]_vars

(***************************************************************************)
(* C4.  A call made in state NoGroup is dispatched exactly once: to        *)
(* mscclRunAlgo when its comm is compatible and it is matched, the saved   *)
(* list being empty afterwards, and otherwise to the generic fallback;     *)
(* an incompatible comm never reaches mscclRunAlgo.                        *)
(***************************************************************************)
C4_NoGroupCallDispatchedOnce ==
  [][ (IsEnqueue("t1") /\ ~SelectFailed("t1") /\ groupStatus["t1"] = "NoGroup")
      => LET id == Len(issued'["t1"])
         IN \/ /\ AllOfKind(NewEvents("t1"), "run", id, id)
               /\ savedSchedulerParams'["t1"] = <<>>
               /\ comms[issued'["t1"][id]].mscclCompatible
            \/ AllOfKind(NewEvents("t1"), "fallback", id, id)
    ]_vars

(***************************************************************************)
(* C6.  The in-place predicate the selector computes is the documented     *)
(* aliasing rule: sendBuff = recvBuff for reduce, broadcast, all-reduce    *)
(* and all-to-all; sendBuff = recvBuff + rank*count*elementSize for        *)
(* all-gather and gather; recvBuff = sendBuff + rank*count*elementSize for *)
(* reduce-scatter and scatter; false for every other kind.                 *)
(***************************************************************************)
AliasingRule(p) ==
  CASE p.func \in {"Reduce", "Broadcast", "AllReduce", "AllToAll"} ->
         p.sendBuff = p.recvBuff
    [] p.func \in {"AllGather", "Gather"} ->
         p.sendBuff = p.recvBuff + p.rank * p.count * p.typeSize
    [] p.func \in {"ReduceScatter", "Scatter"} ->
         p.recvBuff = p.sendBuff + p.rank * p.count * p.typeSize
    [] OTHER -> FALSE

C6_InPlaceIsAliasingRule ==
  sel.kind = "done" => (sel.isInPlace <=> AliasingRule(sel.p))

\* an all-gather or gather whose send buffer is the rank's slot of the
\* receive buffer, at a non-zero offset
C6_Witness ==
  /\ sel.kind = "done"
  /\ sel.p.func \in {"AllGather", "Gather"}
  /\ sel.p.rank * sel.p.count * sel.p.typeSize > 0
  /\ sel.p.sendBuff = sel.p.recvBuff + sel.p.rank * sel.p.count * sel.p.typeSize
  /\ sel.isInPlace

(***************************************************************************)
(* C5.  The built-in selector returns success; it schedules nothing for an *)
(* operator ncclAvg or later; otherwise it schedules the call on the       *)
(* SMALLEST registry index whose entry satisfies every condition, with the *)
(* handle rankToAlgoHandles[i][rank], and schedules nothing when no entry  *)
(* satisfies them.                                                         *)
(***************************************************************************)
EntrySatisfies(p, m) ==
  LET size == p.count * p.typeSize * m.sizeMultiplier
  IN /\ p.count > 0
     /\ (p.count * m.sizeMultiplier) % m.nChunksPerLoop = 0
     /\ m.minBytes <= size
     /\ (m.maxBytes = 0 \/ size <= m.maxBytes)
     /\ m.nRanks = p.nRanks
     /\ m.func = p.func
     /\ (IF AliasingRule(p) THEN m.inPlace ELSE m.outOfPlace)

Satisfying(p) == {i \in 1..Len(algoMetas) : EntrySatisfies(p, algoMetas[i])}

C5_SelectorReturnsFirstMatch ==
  sel.kind = "done" =>
    /\ sel.ret = ncclSuccess
    /\ IF sel.p.op >= ncclAvg \/ Satisfying(sel.p) = {}
       THEN ~sel.scheduled
       ELSE LET i == CHOOSE k \in Satisfying(sel.p) :
                       \A j \in Satisfying(sel.p) : k <= j
            IN sel.scheduled /\ sel.handle = MapGet(rankToAlgoHandles[i], sel.p.rank)

\* two entries satisfy the conditions and the first one's handle is returned
C5_Witness ==
  /\ sel.kind = "done"
  /\ sel.p.op < ncclAvg
  /\ Cardinality(Satisfying(sel.p)) = 2
  /\ sel.scheduled
  /\ sel.handle = 1
  /\ algoMetas[1] # algoMetas[2]

(***************************************************************************)
(* C7.  A comm is marked compatible exactly when no two of its ranks have  *)
(* the same hostHash and the same pidHash; mscclSchedulerInit for an       *)
(* incompatible comm returns success with 0 channels and leaves the        *)
(* registry and the plugin alone; and every mscclEnqueueCheck on such a    *)
(* comm invokes no selectAlgo and dispatches the call to fallback.         *)
(***************************************************************************)
NoTwoRanksShare(peerInfo) ==
  \A i, j \in 1..Len(peerInfo) :
     i # j => ~(peerInfo[i][1] = peerInfo[j][1] /\ peerInfo[i][2] = peerInfo[j][2])

C7_MarkedCompatibleIff ==
  \A c \in CommIds :
     comms[c] # NoComm => (comms[c].mscclCompatible <=> NoTwoRanksShare(comms[c].peerInfo))

C7_IncompatibleInitTouchesNothing ==
  \A c \in CommIds :
     (comms[c] = NoComm /\ comms'[c] # NoComm /\ ~comms'[c].mscclCompatible)
     => /\ lastRet'["t1"] = ncclSuccess
        /\ comms'[c].numChannels = 0
        /\ UNCHANGED statusVars

C7_IncompatibleCallSelectsNothing ==
  (IsEnqueue("t1") /\ ~comms[issued'["t1"][Len(issued'["t1"])]].mscclCompatible)
  => /\ selectCalls' = selectCalls
     /\ \A i \in 1..Len(NewEvents("t1")) : NewEvents("t1")[i].kind = "fallback"

C7_IncompatibleCallFallsBack ==
  (IsEnqueue("t1") /\ ~comms[issued'["t1"][Len(issued'["t1"])]].mscclCompatible)
  => \E i \in 1..Len(NewEvents("t1")) :
        /\ NewEvents("t1")[i].kind = "fallback"
        /\ NewEvents("t1")[i].id = Len(issued'["t1"])

C7_IncompatibleCommFallsBack ==
  /\ []C7_MarkedCompatibleIff
  /\ [][C7_IncompatibleInitTouchesNothing]_vars
  /\ [][C7_IncompatibleCallSelectsNothing]_vars
  /\ [][C7_IncompatibleCallFallsBack]_vars

(***************************************************************************)
(* The invocation logs of mscclInit: loadCalls holds <<entry, rank>> for   *)
(* every mscclLoadAlgo, connectCalls holds <<comm, handle, ok>> for every  *)
(* mscclSetupConnections.  A step that extends one of them is the locked   *)
(* part of an mscclInit, whose comm is lastLife'.comm.                     *)
(***************************************************************************)
InvokesLoadOrConnect == loadCalls' # loadCalls \/ connectCalls' # connectCalls

LoadsAtMostOnce ==
  \A i, j \in 1..Len(loadCalls) : i # j => loadCalls[i] # loadCalls[j]

SameConnect(i, j) ==
  connectCalls[i][1] = connectCalls[j][1] /\ connectCalls[i][2] = connectCalls[j][2]

C9_TeardownRestoresFreeList ==
  (/\ lastLife.op = "mscclTeardown"
   /\ lastLife.ret = ncclSuccess
   /\ lastLife.wasInit
   /\ loadCalls # <<>>)
  => /\ Len(freeAlgoHandles) = MSCCL_MAX_NUM_ALGOS
     /\ {freeAlgoHandles[i] : i \in 1..Len(freeAlgoHandles)}
          = 0..(MSCCL_MAX_NUM_ALGOS - 1)

(***************************************************************************)
(* C10.  The usable flag is true only once the initializing mscclInit has  *)
(* completed every step, the device-kernel preparation included, and it is *)
(* not true after an initializing mscclInit that failed.                   *)
(***************************************************************************)
C10_FlagOnlyAfterFullInit ==
  /\ mscclAvailable => kernelsReady
  /\ (/\ lastLife.op = "mscclInit"
      /\ ~lastLife.wasInit
      /\ lastLife.ret \notin {ncclSuccess, "pending"})
     => ~mscclAvailable

(***************************************************************************)
(* The handles that hold a loaded algorithm, and the handles recorded in   *)
(* the registry for some (entry, rank).                                    *)
(***************************************************************************)
Busy(h) == h \in DOMAIN hostAlgos /\ hostAlgos[h].state = "algo"

Recorded ==
  UNION { {<<i, r>> : r \in DOMAIN rankToAlgoHandles[i]} :
          i \in 1..Len(rankToAlgoHandles) }

FreeSet == {freeAlgoHandles[k] : k \in 1..Len(freeAlgoHandles)}

(***************************************************************************)
(* C11.  A failing collaborator does not corrupt the shared state: once a  *)
(* mscclSchedulerInit or mscclInit has returned success (a retry after a   *)
(* failure included), no registry entry is duplicated or half-built, every *)
(* handle recorded in rankToAlgoHandles holds a loaded algorithm, and no   *)
(* handle of a loaded algorithm is in the free list.                       *)
(***************************************************************************)
C11_FailureLeavesStateIntact ==
  (/\ lastLife.op \in {"mscclSchedulerInit", "mscclInit"}
   /\ lastLife.ret = ncclSuccess)
  => /\ \A i, j \in 1..Len(algoMetas) :
           i # j => algoMetas[i].filePath # algoMetas[j].filePath
     /\ \A i \in 1..Len(algoMetas) : algoMetas[i] # EmptyMeta
     /\ \A x \in Recorded : Busy(rankToAlgoHandles[x[1]][x[2]])
     /\ \A h \in FreeSet : ~Busy(h)

(***************************************************************************)
(* SpecThread: the thread of Spec, which may also call mscclInit again and *)
(* mscclTeardown at any point of its groups.                               *)
(***************************************************************************)
NextThread ==
  \/ Next
  \/ \E c \in CommIds : CommsReady /\ mscclInit("t1", c, NoFail)
  \/ CommsReady /\ mscclTeardown("t1", "none")

SpecThread == Init /\ [][NextThread]_vars

\* a step that is (part of) a lifecycle call: every one of them records itself
IsLifecycle == lastLife' # lastLife

(***************************************************************************)
(* C12.  When mscclInit or mscclTeardown returns, the calling thread's     *)
(* groupStatus is NoGroup, its groupDepth is 0 and its saved-call list is  *)
(* empty, whatever they were before and whatever path the call took.       *)
(***************************************************************************)
C12_LifecycleResetsThreadState ==
  [][ (/\ IsLifecycle
       /\ lastLife'.op \in {"mscclInit", "mscclTeardown"}
       /\ lastLife'.ret # "pending")
      => /\ groupStatus'["t1"] = "NoGroup"
         /\ groupDepth'["t1"] = 0
         /\ savedSchedulerParams'["t1"] = <<>>
    ]_vars

(***************************************************************************)
(* C13.  mscclInit for a comm with intraRanks > 1 returns success, leaves  *)
(* the usable flag false and enables nothing: the free list, the loaded    *)
(* algorithms, the connections, the registry and the device resources are  *)
(* as they were, and no load or connect is invoked.                        *)
(***************************************************************************)
C13_MultiGpuInitEnablesNothing ==
  [][ (/\ IsLifecycle
       /\ lastLife'.op = "mscclInit"
       /\ comms[lastLife'.comm].intraRanks > 1)
      => /\ lastLife'.ret = ncclSuccess
         /\ ~mscclAvailable'
         /\ UNCHANGED <<freeAlgoHandles, hostAlgos, connectedAlgos, algoMetas,
                        rankToAlgoHandles, syncFlags, kernelsReady, loadCalls,
                        connectCalls>>
    ]_vars

\* the call came when the subsystem was initialized and algorithms were loaded
C13_Witness ==
  /\ lastLife.op = "mscclInit"
  /\ comms[lastLife.comm].intraRanks > 1
  /\ lastLife.ret = ncclSuccess
  /\ lastLife.wasInit
  /\ loadCalls # <<>>
  /\ ~mscclAvailable

(***************************************************************************)
(* C14.  Sticky downgrade: a thread whose groupStatus is GroupUnsupportedOp*)
(* keeps it until the mscclGroupEnd that brings groupDepth to 0, and no    *)
(* mscclEnqueueCheck made in that state invokes selectAlgo, built-in or    *)
(* external.                                                               *)
(***************************************************************************)
C14_StickyDowngrade ==
  [][ groupStatus["t1"] = "GroupUnsupportedOp"
      => /\ \/ groupStatus'["t1"] = "GroupUnsupportedOp"
            \/ IsGroupEnd("t1") /\ groupDepth'["t1"] = 0
         /\ IsEnqueue("t1") => selectCalls' = selectCalls
    ]_vars

\* a group of three calls on the compatible comm: the first was rejected by
\* the one selection made, the two after it went to fallback unselected
C14_Witness ==
  /\ groupStatus["t1"] = "GroupUnsupportedOp"
  /\ groupFirst["t1"] = 1
  /\ Len(issued["t1"]) = 3
  /\ \A i \in 1..3 : issued["t1"][i] = "cA"
  /\ selectCalls = 1
  /\ Len(dispatched["t1"]) = 3
  /\ \A i \in 1..3 : dispatched["t1"][i] = [kind |-> "fallback", id |-> i,
                                            handle |-> 0, ok |-> TRUE]

(***************************************************************************)
(* C15.  After every mscclGroupEnd that brings groupDepth to 0 the         *)
(* thread's groupStatus is NoGroup and its saved-call list is empty,       *)
(* whatever the state before and whether or not the dispatch of the        *)
(* batched calls succeeded.                                                *)
(***************************************************************************)
C15_GroupEndResetsUnconditionally ==
  [][ (IsGroupEnd("t1") /\ groupDepth'["t1"] = 0)
      => /\ groupStatus'["t1"] = "NoGroup"
         /\ savedSchedulerParams'["t1"] = <<>>
    ]_vars

(***************************************************************************)
(* C16.  Eager per-group materialization: after every mscclInit(comm) that *)
(* returns success for a compatible comm with the built-in scheduler       *)
(* active, every registry entry with the comm's nRanks has a handle        *)
(* recorded for the comm's rank, that handle holds the algorithm loaded    *)
(* from the entry's file and is in the comm's connected set; with an       *)
(* external scheduler active no step invokes a load or a connect.          *)
(***************************************************************************)
Materialized(c) ==
  \A i \in 1..Len(algoMetas) :
     algoMetas[i].nRanks = comms[c].nRanks
     => /\ i <= Len(rankToAlgoHandles)
        /\ comms[c].rank \in DOMAIN rankToAlgoHandles[i]
        /\ rankToAlgoHandles[i][comms[c].rank] \in DOMAIN hostAlgos
        /\ hostAlgos[rankToAlgoHandles[i][comms[c].rank]]
              = AlgoAt("algo", algoMetas[i].filePath)
        /\ rankToAlgoHandles[i][comms[c].rank] \in connectedAlgos[c]

C16_EagerMaterialization ==
  /\ []((/\ lastLife.op = "mscclInit"
         /\ lastLife.ret = ncclSuccess
         /\ comms[lastLife.comm].mscclCompatible
         /\ mscclSchedulerPtr = "null")
        => Materialized(lastLife.comm))
  /\ [][mscclSchedulerPtr # "null"
        => (loadCalls' = loadCalls /\ connectCalls' = connectCalls)]_vars

(***************************************************************************)
(* SpecSched: one thread creating two compatible comms while the outcome   *)
(* of dlopen and dlsym (lines 191-206) may differ from one                 *)
(* mscclSchedulerInit to the next: the scheduler library is installed or   *)
(* removed, MSCCL_SCHEDULER is set or unset.  Collectives are issued       *)
(* outside groups and no collaborator fails.                               *)
(***************************************************************************)
Envs == {[lib |-> l, sym |-> y, dir |-> TRUE] : l \in BOOLEAN, y \in BOOLEAN}

\* the environment changes between two calls
SetEnv(e) ==
  /\ e # env
  /\ env' = e
  /\ UNCHANGED <<statusVars, comms, threadVars, pc, dispatched, issued, groupFirst,
                 selectCalls, loadCalls, connectCalls, lastRet, lastLife, faults, sel>>

SchedCalls == {call \in GroupCalls : call.comm = "cA" /\ call.func = "Broadcast"}
                \cup {Call("cB", "Broadcast", 2, 2, 1, 1)}

NextSched ==
  \/ \E e \in Envs : SetEnv(e)
  \/ \E c \in CommIds : mscclSchedulerInit("t1", c, LifeDesc[c], "none", 0)
  \/ \E c \in CommIds : comms[c] # NoComm /\ ~comms[c].inited /\ mscclInit("t1", c, NoFail)
  \/ mscclInitKernels("t1", FALSE)
  \/ \E call \in SchedCalls, ext \in ExtAnswers :
        CommsReady /\ mscclEnqueueCheck("t1", call, 0, ext)
  \/ CommsReady /\ mscclTeardown("t1", "none")

SpecSched == Init /\ [][NextSched]_vars

\* the variant mscclSchedulerSelectAlgo dispatches to, and the variant
\* mscclSchedulerInit took for comm c (it reports MAXCHANNELS for the plugin,
\* the registry's channel count otherwise)
ActiveVariant == IF mscclSchedulerPtr # "null" THEN "external" ELSE "builtin"

InitializedUnder(c) ==
  IF comms[c].numChannels = MAXCHANNELS THEN "external" ELSE "builtin"

SchedulerChosen ==
  \E c \in CommIds : comms[c] # NoComm /\ comms[c].mscclCompatible /\ comms[c].schedInit

(***************************************************************************)
(* C17.  One scheduler variant per process: once a mscclSchedulerInit has  *)
(* chosen between the built-in and the external scheduler the choice does  *)
(* not change until teardown; the process never holds a populated built-in *)
(* registry together with an external plugin pointer; and a selection for  *)
(* a comm goes through the variant the comm was initialized under.         *)
(***************************************************************************)
C17_OneSchedulerVariant ==
  /\ [][(SchedulerChosen /\ lastLife'.op # "mscclTeardown")
        => ActiveVariant' = ActiveVariant]_vars
  /\ [](~(mscclSchedulerPtr # "null" /\ algoMetas # <<>>))
  /\ [][(IsEnqueue("t1") /\ selectCalls' # selectCalls)
        => InitializedUnder(issued'["t1"][Len(issued'["t1"])]) = ActiveVariant]_vars

(***************************************************************************)
(* SpecRace: two threads, the steps of mscclInit and mscclEnqueueCheck     *)
(* interleaved.  mscclInit acquires mscclLifecycleMutex (line 232) in one  *)
(* step and runs its block in another; mscclEnqueueCheck enters            *)
(* mscclSchedulerSelectAlgo (lines 350-358, no lock) in one step and       *)
(* completes in another.  A selection that overlaps a mutation of the      *)
(* registry is a data race, and its answer is then any answer.  No         *)
(* collaborator fails.                                                     *)
(***************************************************************************)
LockHeld == \E u \in Threads : pc[u].at = "locked"

\* line 232: std::lock_guard lock(mscclLifecycleMutex)
mscclInitLock(t, c) ==
  /\ pc[t].at = "idle"
  /\ ~LockHeld
  /\ comms[c] # NoComm
  /\ comms[c].schedInit
  /\ ~comms[c].inited
  /\ ~MultiGpuPerProcess(comms[c])
  /\ pc' = [pc EXCEPT ![t] = [at |-> "locked", comm |-> c]]
  /\ UNCHANGED <<statusVars, env, comms, threadVars, dispatched, issued, groupFirst,
                 selectCalls, loadCalls, connectCalls, lastRet, lastLife, faults, sel>>

\* lines 234-278: the block under the lock
mscclInitLocked(t) ==
  /\ pc[t].at = "locked"
  /\ mscclInitFrom(t, pc[t].comm, NoFail)

\* the call reaches mscclSchedulerSelectAlgo: arms mscclNoGroup and
\* mscclGroupSupportedOp of a compatible comm
SelectBegin(t, call) ==
  /\ pc[t].at = "idle"
  /\ EnqueueEnabled(t, call)
  /\ comms[call.comm].mscclCompatible
  /\ groupStatus[t] \in {"NoGroup", "GroupSupportedOp"}
  /\ pc' = [pc EXCEPT ![t] = [at |-> "select", comm |-> call.comm, call |-> call,
                              ptr |-> mscclSchedulerPtr, metas |-> algoMetas,
                              r2h |-> rankToAlgoHandles]]
  /\ UNCHANGED <<statusVars, env, comms, threadVars, dispatched, issued, groupFirst,
                 selectCalls, loadCalls, connectCalls, lastRet, lastLife, faults, sel>>

\* what a selection that raced with a mutation may answer: no algorithm, or
\* any handle
RaceAnswers ==
  {[kind |-> "read", handle |-> 0], [kind |-> "none", handle |-> 0]}
    \cup {[kind |-> "handle", handle |-> h] : h \in 0..(MSCCL_MAX_NUM_ALGOS - 1)}

\* the selection returns and the call completes.  ans of kind "read": the answer
\* computed from the state now; any other answer is possible only when the
\* registry was written since SelectBegin.
SelectEnd(t, ext, ans) ==
  /\ pc[t].at = "select"
  /\ ans.kind # "read" => (ext = "none" /\ <<pc[t].ptr, pc[t].metas, pc[t].r2h>>
                                       # <<mscclSchedulerPtr, algoMetas, rankToAlgoHandles>>)
  /\ LET call == pc[t].call
         p == mscclSetSavedSchedulerParam(Len(issued[t]) + 1, call)
         s == IF ans.kind = "read"
              THEN mscclSchedulerSelectAlgo(p, mscclSchedulerPtr, algoMetas,
                                            rankToAlgoHandles, ext)
              ELSE [ret |-> ncclSuccess, scheduled |-> (ans.kind # "none"),
                    handle |-> IF ans.kind = "none" THEN p.handle ELSE ans.handle,
                    r2h |-> rankToAlgoHandles]
     IN EnqueueApply(t, call, 0, ext,
                     EnqueueCheckWith(groupStatus[t], savedSchedulerParams[t],
                                      mscclIsCallerFlag[t], p, TRUE, 0, s))

RaceCalls == {call \in GroupCalls : call.comm = "cA" /\ call.func = "Broadcast"}

\* cA is rank 0 and cB rank 1 of two-rank comms
RaceDesc == [c \in CommIds |->
               Desc(2, IF c = "cA" THEN 0 ELSE 1, << <<1, 1>>, <<2, 1>> >>)]

NextRace ==
  \/ \E t \in Threads, c \in CommIds :
        ~LockHeld /\ mscclSchedulerInit(t, c, RaceDesc[c], "none", 0)
  \/ \E t \in Threads, c \in CommIds : mscclInitLock(t, c)
  \/ \E t \in Threads : mscclInitLocked(t)
  \/ \E t \in Threads : mscclInitKernels(t, FALSE)
  \/ \E t \in Threads, call \in RaceCalls : SelectBegin(t, call)
  \/ \E t \in Threads, ext \in ExtAnswers, ans \in RaceAnswers : SelectEnd(t, ext, ans)

SpecRace == Init /\ [][NextRace]_vars

(***************************************************************************)
(* C18.  The registry and the plugin pointer are protected by the global   *)
(* lock: no thread is inside the selector lookup of mscclEnqueueCheck      *)
(* while another thread holds the lock in mscclInit to mutate the registry.*)
(***************************************************************************)
C18_RegistryAccessUnderLock ==
  \A t, u \in Threads : ~(pc[t].at = "select" /\ pc[u].at = "locked")

\* the subsystem holds a free list: one was built and handles are free or busy
HoldsFreeList == freeAlgoHandles # <<>> \/ \E h \in DOMAIN hostAlgos : Busy(h)

TimesFree(h) == Cardinality({k \in 1..Len(freeAlgoHandles) : freeAlgoHandles[k] = h})

\* the handles the loads of this step handed out
HandedOut ==
  { rankToAlgoHandles'[loadCalls'[k][1]][loadCalls'[k][2]] :
      k \in (Len(loadCalls) + 1)..Len(loadCalls') }

(***************************************************************************)
(* C19.  Handle free/busy partition: while the subsystem holds a free      *)
(* list, every handle in 0..MSCCL_MAX_NUM_ALGOS-1 is either in the free    *)
(* list exactly once or busy, never both and never neither; and the loads  *)
(* of a mscclInit that succeeds hand out no handle that was busy.          *)
(***************************************************************************)
C19_HandlePartition ==
  /\ [](HoldsFreeList =>
          \A h \in 0..(MSCCL_MAX_NUM_ALGOS - 1) :
             /\ TimesFree(h) <= 1
             /\ (TimesFree(h) = 1) # Busy(h))
  /\ [][(IsLifecycle /\ lastLife'.op = "mscclInit" /\ lastLife'.ret # ncclError)
        => \A h \in HandedOut : ~Busy(h)]_vars

\* how many times call id of thread t1 was handed to mscclRunAlgo or to a
\* generic collective
TimesDispatched(id) ==
  Cardinality({k \in 1..Len(dispatched["t1"]) : dispatched["t1"][k].id = id})

(***************************************************************************)
(* C20.  Exactly-once dispatch: while no collaborator has failed, no call  *)
(* passed to mscclEnqueueCheck has been dispatched more than once (to      *)
(* mscclRunAlgo and fallback together), and outside any group every call   *)
(* issued so far has been dispatched exactly once.                         *)
(***************************************************************************)
C20_ExactlyOnceDispatch ==
  faults = 0
  => \A id \in 1..Len(issued["t1"]) :
        /\ TimesDispatched(id) <= 1
        /\ groupDepth["t1"] = 0 => TimesDispatched(id) = 1

\* a mscclTeardown has released the subsystem and no mscclInit has
\* initialized it since (syncFlags is freed by teardown only and allocated
\* again by the first mscclInit that follows)
TornDown == syncFlags = "freed" /\ ~mscclInitialized

\* the in-place Broadcast of 4 bytes, which entry 2 of the algorithm
\* directory matches for a two-rank comm
ReinitCall(cm) == SelParam("Broadcast", 2, 2, 1, 1, 0, cm.rank, cm.nRanks)

\* the built-in selector schedules p on a handle that holds a loaded algorithm
MatchesLoaded(p, metas, r2h, host) ==
  LET s == mscclInternalSchedulerSelectAlgo(p, metas, r2h)
  IN /\ s.scheduled
     /\ s.handle \in DOMAIN host
     /\ host[s.handle].state = "algo"

(***************************************************************************)
(* C21.  Re-initialization after teardown, with the built-in scheduler and *)
(* no collaborator failing: a mscclSchedulerInit for a compatible comm     *)
(* that follows a mscclTeardown leaves the registry holding the records of *)
(* the algorithm directory and reports the maximum channel count of the    *)
(* entries of the comm's nRanks; and after the mscclInit of that comm that *)
(* follows it, a call that an entry of the directory matches is scheduled  *)
(* on a loaded handle.                                                     *)
(***************************************************************************)
\* this step is a call op for a compatible comm that follows a teardown,
\* with the built-in scheduler and no collaborator having failed
ReinitStep(op) ==
  /\ IsLifecycle
  /\ lastLife'.op = op
  /\ lastLife'.ret # ncclError
  /\ TornDown
  /\ \A t \in Threads : pc[t].at = "idle"
  /\ faults' = 0
  /\ mscclSchedulerPtr' = "null"
  /\ comms'[lastLife'.comm].mscclCompatible

C21_ReinitAfterTeardown ==
  [][ /\ ReinitStep("mscclSchedulerInit")
         => /\ algoMetas' = AlgoDir
            /\ comms'[lastLife'.comm].numChannels
                 = MaxChannels(AlgoDir, comms'[lastLife'.comm].nRanks, 1)
      /\ (ReinitStep("mscclInit") /\ lastLife.op = "mscclSchedulerInit"
            /\ lastLife.comm = lastLife'.comm /\ lastLife.ret = ncclSuccess)
         => MatchesLoaded(ReinitCall(comms'[lastLife'.comm]), algoMetas',
                          rankToAlgoHandles', hostAlgos')
    ]_vars

\* this mscclEnqueueCheck of t returns success, or the failure of the
\* mscclRunAlgo or generic collective it invoked last
ReturnsOrPropagates(t) ==
  \/ lastRet'[t] = ncclSuccess
  \/ /\ NewEvents(t) # <<>>
     /\ ~NewEvents(t)[Len(NewEvents(t))].ok
     /\ lastRet'[t] = ncclError

(***************************************************************************)
(* C22.  Reentrancy guard and leftover state: whenever mscclEnqueueCheck   *)
(* returns, with success or with a failure propagated from a fallback      *)
(* collective or from mscclRunAlgo, the thread's isCaller flag is false    *)
(* and, in state NoGroup or GroupUnsupportedOp, its saved list is empty.   *)
(***************************************************************************)
C22_ReturnLeavesNoLeftover ==
  [][(IsEnqueue("t1") /\ ReturnsOrPropagates("t1"))
     => /\ ~mscclIsCallerFlag'["t1"]
        /\ groupStatus'["t1"] \in {"NoGroup", "GroupUnsupportedOp"}
           => savedSchedulerParams'["t1"] = <<>>
    ]_vars

====
